---- MODULE Spec2Model ----
(***************************************************************************)
(* A model of gen (src/src/lib.rs): `generate` turns an async function     *)
(* into a synchronous Iterator.  The state is one Generator (its shared    *)
(* Mutex<Option<Item>>, its pinned future and its done flag), the async    *)
(* block it drives, and the consumer that calls Iterator::next.            *)
(*                                                                         *)
(* The async block is the user's: it is modelled as a small program, a     *)
(* sequence of instructions drawn from what a block can do with its        *)
(* Communication handle: await one yield_, await two yield_ futures        *)
(* joined, poll a yield_ future by hand (twice in one resumption, or once  *)
(* and drop it), await a future that is not a yield_, change captured       *)
(* state, panic, loop.                                                     *)
(***************************************************************************)
EXTENDS Integers, Sequences, FiniteSets, TLC

\* ---------------------------------------------------------------- bounds

\* Longest async block body, in instructions (a trailing `loop` not counted).
MaxLen == 3

\* Calls of Iterator::next the consumer makes.
MaxPulls == 4

\* Cap of the captured integer and of the items made by a block that never
\* suspends: what MaxPulls pulls of the longest body reach.
MaxCount == (MaxPulls + 1) * MaxLen

\* ------------------------------------------------------------ Option<T>

None == <<>>

Some(x) == <<x>>

\* ------------------------------------------------- the async block's code

\* Payloads of the literal yields (tests.rs yields literals 4, 3, 2, ...).
Vals == {1, 2}

Instr ==
    [op : {"yield"}, v : Vals]            \* co.yield_(v).await
    \cup { [op |-> "yieldi", v |-> 0],    \* co.yield_(*ir).await
           [op |-> "inc", v |-> 0],       \* *ir += 1
           [op |-> "pending", v |-> 0],   \* await of a future that is no yield_
           [op |-> "join", v |-> 1],      \* join!(co.yield_(1), co.yield_(2))
           [op |-> "spin", v |-> 1],      \* a combinator polling co.yield_(1) twice
           [op |-> "pollonce", v |-> 1],  \* co.yield_(1) polled once and dropped
           [op |-> "panic", v |-> 0] }    \* panic!()

Loop == [op |-> "loop", v |-> 0]          \* loop { ... } around the body

Bodies == UNION { [1..n -> Instr] : n \in 0..MaxLen }

Progs == Bodies \cup { b \o <<Loop>> : b \in Bodies \ {<<>>} }

\* The threads that may call next (tests.rs: the main thread, a spawned one).
Threads == {"main", "spawned"}

VARIABLES
    prog,      \* the async block passed to generate
    dpc,       \* where the consumer/driver is: none, idle, poll, check, finish, blocked
    shared,    \* Generator.shared: the Mutex<Option<Item>>
    done,      \* Generator.done
    pc,        \* the async block's position (index into prog)
    futs,      \* the futures the block is awaiting at pc
    sub,       \* polls of them made so far in the current resumption
    fstate,    \* the async block: live, returned, panicked
    i,         \* the integer the block captured by reference (*ir)
    emits,     \* history: yield_ calls made so far (numbers the items)
    results,   \* history: what each next call gave its caller, in order
    thread,    \* the thread running the current (or last) next call
    threads    \* history: the threads that have called next

vars == <<prog, dpc, shared, done, pc, futs, sub, fstate, i, emits, results, thread, threads>>

\* ------------------------------------------------------------ operators

\* Default::default() of Arc<Mutex<Option<Item>>>: an unlocked mutex over None.
Mutex_new == [data |-> None, held |-> FALSE, poisoned |-> FALSE]

\* Mutex::lock on a mutex that is free: the caller holds the guard.
Mutex_lock(m) == [m EXCEPT !.held = TRUE]

\* The drop of the guard as it would be if the guard were leaked.
Mutex_unlock_Leak(g) == g

\* The drop of the guard: at the end of the statement for the temporary in
\* next, at the return of poll for `lock` in YieldFuture::poll.
Mutex_unlock(g) == [g EXCEPT !.held = FALSE]

\* Communication::yield_: a YieldFuture holding the item, not yet polled.
yield_(item) == [kind |-> "yield", value |-> Some(item), ready |-> FALSE]

\* A future of the block that is no YieldFuture: Pending once, then Ready.
other_future == [kind |-> "other", value |-> Some([v |-> 0, id |-> 0]), ready |-> FALSE]

\* YieldFuture::poll as it would be if the first poll, having placed the item,
\* answered Ready instead of Pending.
YieldFuture_poll_Eager(this, m) ==
    IF m.held THEN [this |-> this, m |-> m, res |-> "Blocked"]
    ELSE IF m.poisoned THEN [this |-> this, m |-> m, res |-> "Panic"]
    ELSE IF this.value # None
        THEN [this |-> [this EXCEPT !.value = None, !.ready = TRUE],
              m |-> [m EXCEPT !.data = this.value],
              res |-> "Ready"]
    ELSE IF m.data # None
        THEN [this |-> this, m |-> [m EXCEPT !.poisoned = TRUE], res |-> "Panic"]
    ELSE [this |-> [this EXCEPT !.ready = TRUE], m |-> m, res |-> "Ready"]

\* YieldFuture::poll as it would be without the check of the cell on a later
\* poll: Ready whenever the item has been placed.
YieldFuture_poll_NoCheck(this, m) ==
    IF m.held THEN [this |-> this, m |-> m, res |-> "Blocked"]
    ELSE IF m.poisoned THEN [this |-> this, m |-> m, res |-> "Panic"]
    ELSE IF this.value # None
        THEN [this |-> [this EXCEPT !.value = None],
              m |-> [m EXCEPT !.data = this.value],
              res |-> "Pending"]
    ELSE [this |-> [this EXCEPT !.ready = TRUE], m |-> m, res |-> "Ready"]

\* YieldFuture::poll.  lock().unwrap() blocks on a held mutex and panics on a
\* poisoned one; the guard `lock` is dropped on return, and poisons the mutex
\* when the drop is an unwind.
YieldFuture_poll(this, m) ==
    IF m.held THEN [this |-> this, m |-> m, res |-> "Blocked"]
    ELSE IF m.poisoned THEN [this |-> this, m |-> m, res |-> "Panic"]
    ELSE LET lock == Mutex_lock(m)
         IN  IF this.value # None
                 THEN [this |-> [this EXCEPT !.value = None],
                       m |-> Mutex_unlock([lock EXCEPT !.data = this.value]),
                       res |-> "Pending"]
             ELSE IF lock.data # None
                 THEN [this |-> this,
                       m |-> Mutex_unlock([lock EXCEPT !.poisoned = TRUE]),
                       res |-> "Panic"]
             ELSE [this |-> [this EXCEPT !.ready = TRUE],
                   m |-> Mutex_unlock(lock), res |-> "Ready"]

\* Future::poll of a future of the block: a YieldFuture, or the other kind,
\* which never touches the cell.
Future_poll(this, m) ==
    IF this.kind = "yield" THEN YieldFuture_poll(this, m)
    ELSE IF this.value # None
        THEN [this |-> [this EXCEPT !.value = None], m |-> m, res |-> "Pending"]
    ELSE [this |-> [this EXCEPT !.ready = TRUE], m |-> m, res |-> "Ready"]

\* What a next call gave its caller: a return value, or a panic unwinding
\* through it.
Returned(opt) == [kind |-> "return", out |-> opt]

Panicked == [kind |-> "panic", out |-> None]

\* The instruction the block is at; past the end the block returns.
AtEnd == pc > Len(prog)

Cur == IF AtEnd THEN [op |-> "end", v |-> 0] ELSE prog[pc]

\* The block is being resumed: next is inside future.poll, the block is live.
Running == dpc = "poll" /\ fstate = "live"

\* The futures awaited at the current instruction, created on the first
\* resumption that reaches it.
Awaited ==
    IF futs # <<>> THEN futs
    ELSE IF Cur.op = "yield" THEN <<yield_([v |-> Cur.v, id |-> emits + 1])>>
    ELSE IF Cur.op = "yieldi" THEN <<yield_([v |-> i, id |-> emits + 1])>>
    ELSE IF Cur.op = "join"
        THEN <<yield_([v |-> 1, id |-> emits + 1]), yield_([v |-> 2, id |-> emits + 2])>>
    ELSE IF Cur.op \in {"spin", "pollonce"}
        THEN <<yield_([v |-> Cur.v, id |-> emits + 1])>>
    ELSE <<other_future>>

Created == IF futs # <<>> THEN 0 ELSE IF Cur.op = "join" THEN 2
           ELSE IF Cur.op = "pending" THEN 0 ELSE 1

\* The poll of one awaited future ended a resumption of the block with res
\* (Ready: the block goes on; Pending: future.poll returns Pending to next; a
\* panic unwinds through next; Blocked: the thread waits for the mutex).
AwaitOutcome(fs, m, res) ==
    /\ shared' = m
    /\ emits' = emits + Created
    /\ sub' = 0
    /\ CASE res = "Ready" ->
              /\ pc' = pc + 1 /\ futs' = <<>>
              /\ UNCHANGED <<dpc, fstate, results>>
         [] res = "Pending" ->
              /\ futs' = fs /\ dpc' = "check"
              /\ UNCHANGED <<pc, fstate, results>>
         [] res = "Panic" ->
              /\ futs' = fs /\ fstate' = "panicked" /\ dpc' = "idle"
              /\ results' = Append(results, Panicked)
              /\ UNCHANGED pc
         [] OTHER ->
              /\ futs' = fs /\ dpc' = "blocked"
              /\ UNCHANGED <<pc, fstate, results>>
    /\ UNCHANGED <<prog, done, i, thread, threads>>

\* One poll within a resumption of an await over the futures Awaited (one
\* for `.await`, two for join!): the future at sub + 1 is polled unless it is
\* ready; after the last one the await is Ready if all are, else Pending.
AwaitStep ==
    LET fs == Awaited
        k  == sub + 1
        r  == IF fs[k].ready THEN [this |-> fs[k], m |-> shared, res |-> "Ready"]
              ELSE Future_poll(fs[k], shared)
        gs == [fs EXCEPT ![k] = r.this]
    IN  IF r.res \in {"Panic", "Blocked"} THEN AwaitOutcome(gs, r.m, r.res)
        ELSE IF k < Len(fs)
            THEN /\ futs' = gs /\ shared' = r.m /\ sub' = k
                 /\ emits' = emits + Created
                 /\ UNCHANGED <<prog, dpc, done, pc, fstate, i, results, thread, threads>>
        ELSE AwaitOutcome(gs, r.m,
                 IF \A j \in 1..Len(gs) : gs[j].ready THEN "Ready" ELSE "Pending")

\* -------------------------------------------------------------- actions

Init ==
    /\ prog \in Progs
    /\ dpc = "none"
    /\ shared = Mutex_new
    /\ done = FALSE
    /\ pc = 1
    /\ futs = <<>>
    /\ sub = 0
    /\ fstate = "live"
    /\ i = 0
    /\ emits = 0
    /\ results = <<>>
    /\ thread = "main"
    /\ threads = {}

\* generate as it would be if it ran the block up to its first await.
generate_Eager ==
    /\ dpc = "none"
    /\ dpc' = "idle"
    /\ shared' = Mutex_new
    /\ done' = FALSE
    /\ futs' = <<>> /\ sub' = 0 /\ fstate' = "live"
    /\ IF Cur.op = "inc"
          THEN pc' = pc + 1 /\ i' = i + 1
          ELSE pc' = 1 /\ i' = i
    /\ UNCHANGED <<prog, emits, results, thread, threads>>

\* generate(f): makes the cell, calls f (which builds the future without
\* running it) and returns the Generator.
generate ==
    /\ dpc = "none"
    /\ dpc' = "idle"
    /\ shared' = Mutex_new
    /\ done' = FALSE
    /\ pc' = 1 /\ futs' = <<>> /\ sub' = 0 /\ fstate' = "live"
    /\ UNCHANGED <<prog, i, emits, results, thread, threads>>

\* next as it would be without the `if self.done` return.
NextCall_NoDoneCheck(t) ==
    /\ dpc = "idle"
    /\ Len(results) < MaxPulls
    /\ thread' = t
    /\ threads' = threads \cup {t}
    /\ dpc' = "poll"
    /\ UNCHANGED <<prog, shared, done, pc, futs, sub, fstate, i, emits, results>>

\* Iterator::next is called on thread t: None at once when done, else the
\* loop is entered and the future polled.
NextCall(t) ==
    /\ dpc = "idle"
    /\ Len(results) < MaxPulls
    /\ thread' = t
    /\ threads' = threads \cup {t}
    /\ IF done
          THEN /\ results' = Append(results, Returned(None))
               /\ UNCHANGED dpc
          ELSE /\ dpc' = "poll"
               /\ UNCHANGED results
    /\ UNCHANGED <<prog, shared, done, pc, futs, sub, fstate, i, emits>>

\* future.poll on an async block that has returned or panicked: the block
\* panics, and the panic unwinds through next.
PollResumed ==
    /\ dpc = "poll" /\ fstate # "live"
    /\ dpc' = "idle"
    /\ results' = Append(results, Panicked)
    /\ UNCHANGED <<prog, shared, done, pc, futs, sub, fstate, i, emits, thread, threads>>

\* co.yield_(x).await
AwaitYield ==
    /\ Running /\ Cur.op \in {"yield", "yieldi"}
    /\ AwaitStep

\* join!(co.yield_(1), co.yield_(2))
AwaitJoin ==
    /\ Running /\ Cur.op = "join"
    /\ AwaitStep

\* await of a future that is no yield_
AwaitOther ==
    /\ Running /\ Cur.op = "pending"
    /\ AwaitStep

\* A combinator of the block's own that polls its yield_ future, and polls it
\* again at once when it was Pending, within the same resumption.
AwaitSpin ==
    /\ Running /\ Cur.op = "spin"
    /\ LET r == Future_poll(Awaited[1], shared)
       IN  IF sub = 0 /\ r.res = "Pending"
              THEN /\ futs' = <<r.this>> /\ shared' = r.m /\ sub' = 1
                   /\ emits' = emits + Created
                   /\ UNCHANGED <<prog, dpc, done, pc, fstate, i, results, thread, threads>>
              ELSE AwaitOutcome(<<r.this>>, r.m, r.res)

\* A YieldFuture polled once and dropped (poll!(co.yield_(1)), a select! that
\* another branch wins): the block goes on within the same resumption.
AwaitPollOnce ==
    /\ Running /\ Cur.op = "pollonce"
    /\ emits < MaxCount
    /\ LET r == Future_poll(Awaited[1], shared)
       IN  AwaitOutcome(<<r.this>>, r.m, IF r.res = "Pending" THEN "Ready" ELSE r.res)

\* *ir += 1
StepInc ==
    /\ Running /\ Cur.op = "inc"
    /\ i < MaxCount
    /\ i' = i + 1
    /\ pc' = pc + 1
    /\ UNCHANGED <<prog, dpc, shared, done, futs, sub, fstate, emits, results, thread, threads>>

\* the end of a loop { } body: back to its start
StepLoop ==
    /\ Running /\ Cur.op = "loop"
    /\ pc' = 1
    /\ UNCHANGED <<prog, dpc, shared, done, futs, sub, fstate, i, emits, results, thread, threads>>

\* A panic of the block as it would be if next caught it on its way out and
\* marked the generator done.
StepPanic_Exhausts ==
    /\ Running /\ Cur.op = "panic"
    /\ fstate' = "panicked"
    /\ done' = TRUE
    /\ dpc' = "idle"
    /\ results' = Append(results, Panicked)
    /\ UNCHANGED <<prog, shared, pc, futs, sub, i, emits, thread, threads>>

\* panic!() in the block: the panic unwinds through future.poll and next.
StepPanic ==
    /\ Running /\ Cur.op = "panic"
    /\ fstate' = "panicked"
    /\ dpc' = "idle"
    /\ results' = Append(results, Panicked)
    /\ UNCHANGED <<prog, shared, done, pc, futs, sub, i, emits, thread, threads>>

\* The block runs off its end: future.poll returns Ready and the loop ends.
StepReturn ==
    /\ Running /\ AtEnd
    /\ fstate' = "returned"
    /\ dpc' = "finish"
    /\ UNCHANGED <<prog, shared, done, pc, futs, sub, i, emits, results, thread, threads>>

\* The loop body as it would be if it copied the cell's content instead of
\* taking it.
DriverCheck_NoTake ==
    /\ dpc = "check"
    /\ IF shared.held
          THEN dpc' = "blocked" /\ UNCHANGED results
       ELSE IF shared.poisoned
          THEN dpc' = "idle" /\ results' = Append(results, Panicked)
       ELSE IF shared.data # None
          THEN dpc' = "idle" /\ results' = Append(results, Returned(shared.data))
       ELSE dpc' = "poll" /\ UNCHANGED results
    /\ UNCHANGED <<prog, shared, done, pc, futs, sub, fstate, i, emits, thread, threads>>

\* The loop body as it would be without `if out.is_some()`: whatever the cell
\* held is returned.
DriverCheck_ReturnAny ==
    /\ dpc = "check"
    /\ IF shared.held
          THEN /\ dpc' = "blocked"
               /\ UNCHANGED <<shared, results>>
       ELSE IF shared.poisoned
          THEN /\ dpc' = "idle"
               /\ results' = Append(results, Panicked)
               /\ UNCHANGED shared
       ELSE /\ shared' = [shared EXCEPT !.data = None]
            /\ results' = Append(results, Returned(shared.data))
            /\ dpc' = "idle"
    /\ UNCHANGED <<prog, done, pc, futs, sub, fstate, i, emits, thread, threads>>

\* The loop body as it would be if it took the cell's content and polled again
\* without returning it.
DriverCheck_Discard ==
    /\ dpc = "check"
    /\ IF shared.held
          THEN /\ dpc' = "blocked"
               /\ UNCHANGED <<shared, results>>
       ELSE IF shared.poisoned
          THEN /\ dpc' = "idle"
               /\ results' = Append(results, Panicked)
               /\ UNCHANGED shared
       ELSE /\ shared' = [shared EXCEPT !.data = None]
            /\ dpc' = "poll"
            /\ UNCHANGED results
    /\ UNCHANGED <<prog, done, pc, futs, sub, fstate, i, emits, thread, threads>>

\* The loop body after a Pending poll: take the cell's content and return it
\* if there is one, else poll again.
DriverCheck ==
    /\ dpc = "check"
    /\ IF shared.held
          THEN /\ dpc' = "blocked"
               /\ UNCHANGED <<shared, results>>
       ELSE IF shared.poisoned
          THEN /\ dpc' = "idle"
               /\ results' = Append(results, Panicked)
               /\ UNCHANGED shared
       ELSE /\ shared' = Mutex_unlock([Mutex_lock(shared) EXCEPT !.data = None])
            /\ IF shared.data # None
                  THEN /\ results' = Append(results, Returned(shared.data))
                       /\ dpc' = "idle"
                  ELSE /\ dpc' = "poll"
                       /\ UNCHANGED results
    /\ UNCHANGED <<prog, done, pc, futs, sub, fstate, i, emits, thread, threads>>

\* The end of next as it would be without `self.done = true`.
DriverFinish_NoDone ==
    /\ dpc = "finish"
    /\ dpc' = "idle"
    /\ results' = Append(results, Returned(None))
    /\ UNCHANGED <<prog, shared, done, pc, futs, sub, fstate, i, emits, thread, threads>>

\* After the loop: self.done = true; None
DriverFinish ==
    /\ dpc = "finish"
    /\ done' = TRUE
    /\ dpc' = "idle"
    /\ results' = Append(results, Returned(None))
    /\ UNCHANGED <<prog, shared, pc, futs, sub, fstate, i, emits, thread, threads>>

Next ==
    \/ generate
    \/ \E t \in Threads : NextCall(t)
    \/ PollResumed
    \/ AwaitYield
    \/ AwaitJoin
    \/ AwaitOther
    \/ AwaitSpin
    \/ AwaitPollOnce
    \/ StepInc
    \/ StepLoop
    \/ StepPanic
    \/ StepReturn
    \/ DriverCheck
    \/ DriverFinish

Spec == Init /\ [][Next]_vars

\* A call of next is running: between its entry and its return or unwind.
InCall == dpc \in {"poll", "check", "finish"}

\* The steps of a running call of next: the polls of the future (the block's
\* own steps run inside them), the loop body, the epilogue.
Run ==
    \/ PollResumed
    \/ AwaitYield
    \/ AwaitJoin
    \/ AwaitOther
    \/ AwaitSpin
    \/ AwaitPollOnce
    \/ StepInc
    \/ StepLoop
    \/ StepPanic
    \/ StepReturn
    \/ DriverCheck
    \/ DriverFinish

\* next is straight-line code on its caller's thread and its waker does
\* nothing: a call that can take a step takes it.  The consumer need not call.
FairSpec == Spec /\ WF_vars(Run)

\* ------------------------------------------------- vocabulary of the claims

\* The block awaits its yield_ futures one after another (and may await other
\* futures, change captured state and loop): no join, no polling of its own,
\* no panic.
Sequential(p) ==
    \A k \in 1..Len(p) : p[k].op \in {"yield", "yieldi", "inc", "pending", "loop"}

\* ... and runs straight to its end.
Straight(p) ==
    \A k \in 1..Len(p) : p[k].op \in {"yield", "yieldi", "inc", "pending"}

\* The values a straight block passes to yield_, in program order, from
\* instruction k on with the captured integer at c.
RECURSIVE Emitted(_, _, _)
Emitted(p, k, c) ==
    IF k > Len(p) THEN <<>>
    ELSE IF p[k].op = "yield" THEN <<p[k].v>> \o Emitted(p, k + 1, c)
    ELSE IF p[k].op = "yieldi" THEN <<c>> \o Emitted(p, k + 1, c)
    ELSE IF p[k].op = "inc" THEN Emitted(p, k + 1, c + 1)
    ELSE Emitted(p, k + 1, c)

\* The item results whose payload is a value.
IsItem(r) == r.kind = "return" /\ r.out # None

NumItems(rs) == Cardinality({n \in 1..Len(rs) : IsItem(rs[n])})

Last(rs) == rs[Len(rs)]

CellFull == shared.data # None

\* tests.rs mut_ref / move_iter_to_thread: loop { co.yield_(*ir).await; *ir += 1; }
Counter == <<[op |-> "yieldi", v |-> 0], [op |-> "inc", v |-> 0], Loop>>

\* ------------------------------------------------------------------ C1

\* C1: a block that awaits its yield_ futures one after another, passing
\* v1..vk and then returning, makes the successive next calls return
\* Some(v1), ..., Some(vk) in that order, each item once, and then None.
C1_OrderedEmits ==
    Straight(prog) =>
        LET E == Emitted(prog, 1, 0)
        IN  \A n \in 1..Len(results) :
                results[n] = IF n <= Len(E)
                                THEN Returned(Some([v |-> E[n], id |-> n]))
                                ELSE Returned(None)

C1_Witness ==
    /\ Straight(prog)
    /\ Emitted(prog, 1, 0) = <<2, 1, 2>>
    /\ Len(results) = 4
    /\ dpc = "idle"

\* ------------------------------------------------------------------ C2

\* C2: once a next call has returned None, every later call returns None, the
\* generator stays done and the async block is not polled again.
C2_ExhaustedStays ==
    [][ (results # <<>> /\ Last(results) = Returned(None)) =>
            /\ done'
            /\ dpc' = "idle"
            /\ UNCHANGED <<shared, pc, futs, sub, fstate, i, emits>>
            /\ results' \in {results, Append(results, Returned(None))} ]_vars

C2_Witness ==
    /\ Len(results) = 4
    /\ IsItem(results[1])
    /\ \A n \in 2..4 : results[n] = Returned(None)

\* ------------------------------------------------------------------ C3

\* C3: a next call that returns an item has run the block exactly up to its
\* next yield_ and no further: one yield_ per returned item, the block left
\* suspended in that yield_; for the counter block the captured integer then
\* equals the value returned.
C3_OneEmitPerItem ==
    (dpc = "idle" /\ results # <<>> /\ IsItem(Last(results))) =>
        /\ emits = NumItems(results)
        /\ Len(futs) = 1 /\ futs[1].kind = "yield" /\ futs[1].value = None
        /\ prog = Counter => i = Last(results).out[1].v

\* ------------------------------------------------------------------ C4

\* C4 as stated: for the counter block, after n items are pulled the captured
\* integer equals n.
C4_CounterEqualsPulls ==
    (prog = Counter /\ dpc = "idle") => i = NumItems(results)

\* C4 amended: for the counter block, the n-th pull returns n - 1, and after
\* n >= 1 pulls the captured integer equals n - 1 (0 before the first pull):
\* the increment that follows the n-th yield_ has not run.
C4_CounterEqualsLastItem ==
    (prog = Counter /\ dpc = "idle") =>
        /\ \A n \in 1..Len(results) :
               results[n] = Returned(Some([v |-> n - 1, id |-> n]))
        /\ i = IF results = <<>> THEN 0 ELSE Len(results) - 1

C4_Witness ==
    prog = Counter /\ dpc = "idle" /\ Len(results) = 4 /\ i = 3

\* ------------------------------------------------------------------ C5

\* What n next calls issued by one thread return for a sequential block, and
\* the captured integer they leave: the block is run from instruction k with
\* the integer at c until its n-th yield_ or its end.
RECURSIVE SingleThreaded(_, _, _, _, _, _)
SingleThreaded(p, k, c, n, id, fuel) ==
    IF n = 0 \/ fuel = 0 THEN [out |-> <<>>, i |-> c]
    ELSE IF k > Len(p)
        THEN [out |-> [m \in 1..n |-> Returned(None)], i |-> c]
    ELSE IF p[k].op \in {"yield", "yieldi"}
        THEN LET x == IF p[k].op = "yield" THEN p[k].v ELSE c
                 r == SingleThreaded(p, k + 1, c, n - 1, id + 1, fuel - 1)
             IN  [out |-> <<Returned(Some([v |-> x, id |-> id]))>> \o r.out, i |-> r.i]
    ELSE IF p[k].op = "inc" THEN SingleThreaded(p, k + 1, c + 1, n, id, fuel - 1)
    ELSE IF p[k].op = "loop" THEN SingleThreaded(p, 1, c, n, id, fuel - 1)
    ELSE SingleThreaded(p, k + 1, c, n, id, fuel - 1)

\* C5: whichever threads issue the (serialized) next calls, the values
\* returned and the captured state are those of the calls issued by a single
\* thread: no value is skipped, duplicated or reordered.
C5_ThreadsDoNotMatter ==
    (Sequential(prog) /\ dpc = "idle") =>
        LET n == Len(results)
            r == SingleThreaded(prog, 1, 0, n, 1, (n + 1) * (Len(prog) + 1))
        IN  results = r.out /\ i = r.i

C5_Witness ==
    /\ prog = Counter /\ dpc = "idle"
    /\ threads = Threads
    /\ thread = "main"
    /\ Len(results) = 4 /\ i = 3

\* ------------------------------------------------------------------ C6

\* The state of the async block.
Block == <<pc, futs, sub, fstate, i, emits>>

\* C6: the block runs only inside a next call: generate does not run any of
\* it (before the first call has returned nothing of the block has happened
\* and the cell is empty), and the block and the cell change only in steps
\* of a call in progress.
C6_RunsOnlyInsideNext ==
    /\ []((dpc \in {"none", "idle"} /\ results = <<>>) =>
              (pc = 1 /\ futs = <<>> /\ fstate = "live" /\ i = 0 /\ emits = 0
               /\ ~CellFull))
    /\ [][ (Block' # Block => dpc = "poll")
           /\ (shared' # shared => dpc \in {"poll", "check"}) ]_vars

C6_Witness ==
    /\ dpc = "idle" /\ Len(results) = 2
    /\ i = 2 /\ emits = 2 /\ pc = 3

\* ------------------------------------------------------------------ C7

\* C7: for a block that returns on its first resumption without a yield_, the
\* first next call returns None and the generator is done from then on.
C7_EmptyBlock ==
    ((\A k \in 1..Len(prog) : prog[k].op = "inc") /\ results # <<>>) =>
        results[1] = Returned(None) /\ done

C7_Witness ==
    prog = <<>> /\ Len(results) = 1 /\ dpc = "idle"

\* ------------------------------------------------------------------ C8

\* The places item number id is in: a YieldFuture's value, the cell, a result.
Places(id) ==
    Cardinality({k \in 1..Len(futs) :
                    futs[k].kind = "yield" /\ futs[k].value # None
                    /\ futs[k].value[1].id = id})
    + (IF CellFull /\ shared.data[1].id = id THEN 1 ELSE 0)
    + Cardinality({n \in 1..Len(results) :
                      IsItem(results[n]) /\ results[n].out[1].id = id})

\* C8: every item passed to yield_ is moved, never copied: in every state it
\* is in exactly one place, its YieldFuture, the cell or a result.
C8_ExactlyOnePlace ==
    \A id \in 1..emits : Places(id) = 1

\* ------------------------------------------------------------------ C9

\* C9: for a sequential block, writes of the cell by yield_ futures and takes
\* by next strictly alternate, write first: every write finds the cell empty,
\* and the cell holds the one item written and not yet taken, if any.
C9_WriteTakeAlternate ==
    /\ [](Sequential(prog) =>
              emits - NumItems(results) = IF CellFull THEN 1 ELSE 0)
    /\ [][ Sequential(prog) =>
              /\ (shared'.data # shared.data /\ shared'.data # None) =>
                     (~CellFull /\ emits' = emits + 1)
              /\ (shared'.data # shared.data /\ shared'.data = None) =>
                     (CellFull /\ results' = Append(results, Returned(shared.data))) ]_vars

C9_Witness ==
    /\ Sequential(prog) /\ CellFull
    /\ emits = 3 /\ NumItems(results) = 2

\* ----------------------------------------------------------------- C10

\* C10: the cell is written only when it is empty: no step replaces a value
\* in the cell by another value, and the first poll of a yield_ future that
\* finds the cell occupied panics.
C10_NoOverwrite ==
    [][ CellFull =>
            /\ shared'.data \in {shared.data, None}
            /\ (\E k \in 1..Len(Awaited) :
                    /\ dpc = "poll" /\ Awaited[k].kind = "yield"
                    /\ Awaited[k].value # None
                    /\ (Len(futs') < k \/ futs'[k].value = None))
                => fstate' = "panicked" ]_vars

\* ----------------------------------------------------------------- C11

\* The YieldFuture polled by the step a block at an await of yield_ futures
\* takes next.
Polled == IF Cur.op = "spin" THEN 1 ELSE sub + 1

AtEmit == Running /\ Cur.op \in {"yield", "yieldi", "join", "spin"}

\* C11: a yield_ is a two-step suspension point.  Its first poll moves the
\* item into the cell and answers Pending (the future is not ready, the block
\* stays at the await, a plain `.await` hands Pending to next); a later poll
\* that finds the cell empty answers Ready (the future is ready or the block
\* goes on) and leaves the cell alone.  The cell gets a new item only from a
\* first poll, and a future that has given its item never has one again: each
\* yield_ writes its item exactly once.
C11_EmitTwoStep ==
    [][ /\ (AtEmit /\ ~Awaited[Polled].ready /\ Awaited[Polled].value # None) =>
              /\ shared'.data = Awaited[Polled].value
              /\ Len(futs') >= Polled
              /\ futs'[Polled].value = None /\ ~futs'[Polled].ready
              /\ pc' = pc /\ fstate' = "live"
              /\ Cur.op \in {"yield", "yieldi"} => dpc' = "check"
        /\ (AtEmit /\ ~Awaited[Polled].ready /\ Awaited[Polled].value = None
            /\ ~CellFull) =>
              /\ shared' = shared
              /\ pc' = pc + 1 \/ (Len(futs') >= Polled /\ futs'[Polled].ready)
              /\ fstate' = "live"
        /\ (shared'.data # shared.data /\ shared'.data # None) =>
              (Running /\ Awaited[Polled].value = shared'.data)
        /\ \A k \in 1..Len(futs) :
              (futs[k].value = None /\ Len(futs') >= k) => futs'[k].value = None
      ]_vars

\* A second yield_ is awaited after the first one completed.
C11_Witness ==
    /\ Straight(prog) /\ pc = 2 /\ prog[1].op = "yield"
    /\ dpc = "check" /\ emits = 2 /\ NumItems(results) = 1 /\ CellFull

\* ----------------------------------------------------------------- C12

\* C12: a yield_ future that has placed its item and is polled again while
\* the cell is still occupied panics: the future does not become ready, the
\* content of the cell stays, and the block never goes on from there.
C12_RepollPanics ==
    [][ /\ (AtEmit /\ ~Awaited[Polled].ready /\ Awaited[Polled].value = None
            /\ CellFull) =>
              /\ fstate' = "panicked"
              /\ results' = Append(results, Panicked)
              /\ shared'.data = shared.data
              /\ futs' = futs /\ pc' = pc
        /\ fstate = "panicked" =>
              (fstate' = "panicked" /\ UNCHANGED <<pc, futs, i, emits>>) ]_vars

C12_Witness ==
    /\ fstate = "panicked" /\ Cur.op = "spin"
    /\ CellFull /\ futs # <<>> /\ futs[1].value = None
    /\ Len(results) = 3 /\ results[2] = Panicked /\ results[3] = Panicked

\* ----------------------------------------------------------------- C13

\* C13: a Pending poll that leaves the cell empty is not shown to the
\* consumer: next polls again within the same call.  A next call returns an
\* item only when after a Pending poll the cell was occupied, and then it
\* returns the cell's content and leaves the cell empty.
C13_EmptySuspensionHidden ==
    [][ /\ (dpc = "check" /\ ~CellFull) =>
              (dpc' = "poll" /\ results' = results /\ ~done')
        /\ (results' # results /\ IsItem(Last(results'))) =>
              /\ dpc = "check" /\ CellFull
              /\ results' = Append(results, Returned(shared.data))
              /\ shared'.data = None ]_vars

C13_Witness ==
    /\ Len(prog) = 2 /\ prog[1].op = "pending" /\ prog[2].op = "yield"
    /\ dpc = "idle" /\ Len(results) = 1 /\ IsItem(results[1])

\* ----------------------------------------------------------------- C14

\* C14: next returns None only if the block has returned: whenever control is
\* with the consumer the generator is done exactly if a poll of the block
\* answered Ready, done is never set otherwise, and no result is None while
\* the block has not returned.
C14_NoneOnlyAfterReturn ==
    /\ done => fstate = "returned"
    /\ (dpc \in {"none", "idle"}) => (done <=> fstate = "returned")
    /\ \A n \in 1..Len(results) :
           results[n] = Returned(None) => (fstate = "returned" /\ done)

C14_Witness ==
    /\ done /\ fstate = "returned" /\ dpc = "idle"
    /\ Len(results) = 3 /\ IsItem(results[1]) /\ IsItem(results[2])
    /\ results[3] = Returned(None)

\* ----------------------------------------------------------------- C15

\* C15 as stated: once a call of next has ended in a panic of the block the
\* generator is Exhausted: done is set when control is back with the consumer
\* and every later call returns None.
C15_PanicExhausts ==
    \A n \in 1..Len(results) :
        results[n].kind = "panic" =>
            /\ dpc = "idle" => done
            /\ \A m \in (n + 1)..Len(results) : results[m] = Returned(None)

\* C15 as the code has it: a panic of the block unwinds through next and
\* leaves done unset; every later call polls the panicked block again, and
\* that poll panics again.  No call after a panic returns anything, and a
\* call ends in a panic only when the block has panicked.
C15_PanicPropagates ==
    /\ fstate = "panicked" => (~done /\ dpc \in {"idle", "poll"})
    /\ (fstate = "panicked" /\ dpc = "idle") =>
           (results # <<>> /\ Last(results) = Panicked)
    /\ \A n \in 1..Len(results) :
           results[n].kind = "panic" =>
               /\ fstate = "panicked"
               /\ \A m \in n..Len(results) : results[m] = Panicked

\* An item, then the block's own panic!(), then two more calls.
C15_Witness ==
    /\ Len(prog) = 2 /\ prog[1].op = "yield" /\ prog[2].op = "panic"
    /\ dpc = "idle" /\ ~done
    /\ Len(results) = 4 /\ IsItem(results[1])
    /\ results[2] = Panicked /\ results[3] = Panicked /\ results[4] = Panicked

\* ----------------------------------------------------------------- C16

\* C16: the mutex is free between any two steps of the driver and the block:
\* neither holds a guard across a step of the other, so no lock() ever finds
\* the mutex held and nothing waits for it.
C16_LockNeverContended ==
    ~shared.held /\ dpc # "blocked"

\* The cell has been locked by yield_ futures and by next in alternation.
C16_Witness ==
    /\ NumItems(results) = 3 /\ dpc = "check" /\ CellFull /\ ~shared.held

\* ----------------------------------------------------------------- C17

\* C17 as stated: whenever control is with the consumer (after generate and
\* after every return of next, an item or None) the cell is empty.
C17_CellEmptyAtConsumer ==
    (dpc = "idle" /\ (results = <<>> \/ Last(results).kind = "return")) => ~CellFull

\* ----------------------------------------------------------------- C18

\* C18: a block that awaits each yield_ on its own never reaches the panic of
\* YieldFuture::poll: every later poll of a yield_ future finds the cell
\* empty, is Ready and lets the block go on; no call ends in a panic and the
\* mutex is never poisoned.
C18_NoIncorrectExecutor ==
    [][ Sequential(prog) =>
          /\ fstate' # "panicked" /\ ~shared'.poisoned
          /\ \A n \in 1..Len(results') : results'[n].kind = "return"
          /\ (AtEmit /\ Awaited[1].value = None) =>
                (~CellFull /\ pc' = pc + 1 /\ shared' = shared) ]_vars

\* The counter block has had its yield_ futures polled a second time.
C18_Witness ==
    /\ prog = Counter /\ NumItems(results) = 3 /\ i = 3
    /\ dpc = "check" /\ CellFull /\ fstate = "live"

\* ----------------------------------------------------------------- C19

Loops(p) == p # <<>> /\ p[Len(p)] = Loop

Ops(p) == {p[k].op : k \in 1..Len(p)} \ {"loop"}

\* Every resumption of the block gets to the await of a yield_ or to the end
\* of the block (or to a panic) after finitely many suspensions: the block
\* does not loop, or its loop passes a yield_ and a suspension.
ReachesEmitOrEnd(p) ==
    \/ ~Loops(p)
    \/ Ops(p) \cap {"yield", "yieldi", "join", "spin", "panic"} # {}
    \/ {"pollonce", "pending"} \subseteq Ops(p)

\* The block loops over awaits that are no yield_: it suspends again and
\* again, never emits and never returns.
KeepsSuspending(p) ==
    Loops(p) /\ "pending" \in Ops(p) /\ Ops(p) \subseteq {"pending", "inc"}

\* C19: a call of next ends when the block reaches a yield_ or its end after
\* finitely many resumptions; for a block that keeps suspending without ever
\* emitting or returning the call never ends and gives no result, and (when
\* the block does nothing but suspend) next polls it again and again.
C19_NextReturns ==
    /\ (ReachesEmitOrEnd(prog) /\ InCall) ~> (dpc = "idle")
    /\ [][ (KeepsSuspending(prog) /\ InCall) =>
               (dpc' \in {"poll", "check"} /\ results' = results) ]_vars
    /\ (KeepsSuspending(prog) /\ Ops(prog) = {"pending"} /\ InCall) ~> (dpc = "check")
    /\ (KeepsSuspending(prog) /\ Ops(prog) = {"pending"} /\ InCall) ~> (dpc = "poll")

\* A looping block that suspends without an item before each yield_ has
\* answered two calls.
C19_Witness ==
    /\ prog = <<[op |-> "pending", v |-> 0], [op |-> "yieldi", v |-> 0], Loop>>
    /\ dpc = "idle" /\ Len(results) = 2 /\ IsItem(results[2])

====
